---- MODULE Spec2Model ----
(***************************************************************************)
(* Model of examples/msaa-line/main.rs: the Example struct, its            *)
(* constructor init and its three handlers update, resize and render.      *)
(* GPU objects are modelled by the descriptors they were created from.     *)
(***************************************************************************)
EXTENDS Integers, Sequences, FiniteSets, TLC

\* ------------------------------------------------------------------ bounds
\* Surface sizes are the pairs of a width and a height, each at least 1, of
\* sum at most MaxDim + 1.
MaxDim == 2
\* Pressed Right keys outnumber pressed Left keys, or the reverse, by at most
\* MaxNet at any point of a behaviour.
MaxNet == 3
\* inputsSinceRender counts up to MaxCoalesced and stays there.
MaxCoalesced == 2
\* The vertex generator is examined for 0..MaxSegments segments.
MaxSegments == 4

Sizes == { s \in (1..MaxDim) \X (1..MaxDim) : s[1] + s[2] <= MaxDim + 1 }

\* ------------------------------------------------------- program constants
\* `let sample_count = 4;` in init
InitialSampleCount == 4
\* `let max = 50;` in init: the number of line segments
max == 50
\* the bound in `if self.sample_count <= 16`
RightLimit == 16
\* the bound in `if self.sample_count >= 2`
LeftLimit == 2
\* size_of::<Vertex>(): two f32 of _pos and four f32 of _color, in bytes
VertexSize == 24
\* The format of the swap chain; the example only ever copies it.
SurfaceFormat == "Bgra8UnormSrgb"

VARIABLES
    \* fields of struct Example
    bundle,
    vs_module,
    fs_module,
    pipeline_layout,
    multisampled_framebuffer,
    vertex_buffer,
    vertex_count,
    sample_count,
    rebuild_bundle,
    sc_desc,
    \* what the handlers return or call, and what they were given
    command_buffer,     \* what the last handler returned: the passes render()
                        \* encoded, <<>> for the handlers that return nothing
    calls,              \* invocations of the two builders by the last handler
    lastOp,             \* the handler that ran last
    prevOp,             \* the handler that ran before it
    lastResize,         \* width and height of the latest resize (or of init)
    net_steps,          \* pressed Right keys minus pressed Left keys so far
    inputsSinceRender,  \* pressed Left/Right keys since the last render()
    absorbed,           \* the inputsSinceRender a render() met, if it ran last
    bundle_config       \* sc_desc and sample_count given to the create_bundle
                        \* call that built the installed bundle

fields == <<bundle, vs_module, fs_module, pipeline_layout,
            multisampled_framebuffer, vertex_buffer, vertex_count,
            sample_count, rebuild_bundle, sc_desc>>

static_resources == <<vs_module, fs_module, pipeline_layout, vertex_buffer,
                      vertex_count>>

vars == <<bundle, vs_module, fs_module, pipeline_layout,
          multisampled_framebuffer, vertex_buffer, vertex_count,
          sample_count, rebuild_bundle, sc_desc,
          command_buffer, calls, lastOp, prevOp, lastResize,
          net_steps, inputsSinceRender, absorbed, bundle_config>>

\* ----------------------------------------------------------------- helpers
\* wgpu::SwapChainDescriptor as far as the example reads it
SwapChainDescriptor(w, h) == [width |-> w, height |-> h, format |-> SurfaceFormat]

\* self.sample_count >> 1 on a u32
\* (variant: shifts by two bits)
shr1_twice(n) == n \div 4

shr1(n) == n \div 2

\* self.sample_count << 1 on a u32; the guard of update keeps the operand at
\* 16 or below, so the shift never leaves the 32 bits
shl1(n) == n * 2

\* The vertex data pushed by the loop of init: for each i a centre vertex at
\* the origin and a rim vertex at (cos, sin) of the angle i/max * 2 * PI.
\* A position is kept in polar form: its distance from the origin and the
\* index of its angle.
\* (variant: only the rim vertex of each segment is pushed)
RECURSIVE vertex_data_rim_only(_)
vertex_data_rim_only(n) ==
    IF n = 0 THEN <<>>
    ELSE vertex_data_rim_only(n - 1) \o << [radius |-> 1, angle |-> n - 1] >>

RECURSIVE vertex_data(_)
vertex_data(n) ==
    IF n = 0 THEN <<>>
    ELSE vertex_data(n - 1) \o
         << [radius |-> 0, angle |-> n - 1],
            [radius |-> 1, angle |-> n - 1] >>

\* device.create_buffer_with_data(bytemuck::cast_slice(&vertex_data), VERTEX):
\* a buffer of the size of the data; the Vec itself is dropped when init ends.
create_buffer_with_data(data, usage) ==
    [ buffer |-> "vertex_buffer", size |-> Len(data) * VertexSize,
      usage |-> usage ]

\* Example::create_bundle: the pipeline takes the layout and the two shader
\* modules; the pipeline and the bundle encoder both take sample_count and
\* sc_desc.format; the bundle draws 0..vertex_count of the vertex buffer.
\* (variant: the sample count of init is kept instead of the one passed in)
create_bundle_stale(sc, vs, fs, layout, count, vb, vc) ==
    [ label          |-> "main",
      layout         |-> layout,
      vertex_stage   |-> vs,
      fragment_stage |-> fs,
      sample_count   |-> InitialSampleCount,
      format         |-> sc.format,
      topology       |-> "LineList",
      vertex_buffer  |-> vb,
      draw           |-> vc ]

\* (variant: the two shader modules are exchanged)
create_bundle_swapped_shaders(sc, vs, fs, layout, count, vb, vc) ==
    [ label          |-> "main",
      layout         |-> layout,
      vertex_stage   |-> fs,
      fragment_stage |-> vs,
      sample_count   |-> count,
      format         |-> sc.format,
      topology       |-> "LineList",
      vertex_buffer  |-> vb,
      draw           |-> vc ]

create_bundle(sc, vs, fs, layout, count, vb, vc) ==
    [ label          |-> "main",
      layout         |-> layout,
      vertex_stage   |-> vs,
      fragment_stage |-> fs,
      sample_count   |-> count,
      format         |-> sc.format,
      topology       |-> "LineList",
      vertex_buffer  |-> vb,
      draw           |-> vc ]

\* Example::create_multisampled_framebuffer: a view of a texture of the
\* swap chain's width, height and format with the given sample count.
\* (variant: width and height are exchanged)
create_multisampled_framebuffer_swapped(sc, count) ==
    [ view         |-> "multisampled_framebuffer",
      width        |-> sc.height,
      height       |-> sc.width,
      sample_count |-> count,
      format       |-> sc.format ]

\* (variant: the sample count of init is kept instead of the one passed in)
create_multisampled_framebuffer_stale(sc, count) ==
    [ view         |-> "multisampled_framebuffer",
      width        |-> sc.width,
      height       |-> sc.height,
      sample_count |-> InitialSampleCount,
      format       |-> sc.format ]

create_multisampled_framebuffer(sc, count) ==
    [ view         |-> "multisampled_framebuffer",
      width        |-> sc.width,
      height       |-> sc.height,
      sample_count |-> count,
      format       |-> sc.format ]

\* frame.view: the view of the swap chain texture handed to render(); a swap
\* chain texture is single-sampled and has the size of the surface.
frame_view(sc) ==
    [ view         |-> "frame.view",
      width        |-> sc.width,
      height       |-> sc.height,
      sample_count |-> 1,
      format       |-> sc.format ]

\* The colour attachment render() builds.  resolve_target is an Option:
\* <<>> is None and <<v>> is Some(v).
\* (variant: the multisample target is never resolved into the frame)
rpass_color_attachment_unresolved(count, frame, fb) ==
    IF count = 1
    THEN [ attachment     |-> frame,
           resolve_target |-> <<>>,
           load_op        |-> "Clear",
           store_op       |-> "Store",
           clear_color    |-> "BLACK" ]
    ELSE [ attachment     |-> fb,
           resolve_target |-> <<>>,
           load_op        |-> "Clear",
           store_op       |-> "Store",
           clear_color    |-> "BLACK" ]

rpass_color_attachment(count, frame, fb) ==
    IF count = 1
    THEN [ attachment     |-> frame,
           resolve_target |-> <<>>,
           load_op        |-> "Clear",
           store_op       |-> "Store",
           clear_color    |-> "BLACK" ]
    ELSE [ attachment     |-> fb,
           resolve_target |-> <<frame>>,
           load_op        |-> "Clear",
           store_op       |-> "Store",
           clear_color    |-> "BLACK" ]

\* begin_render_pass(..).execute_bundles(iter::once(&self.bundle))
render_pass(attachment, b) ==
    [ color_attachments        |-> <<attachment>>,
      depth_stencil_attachment |-> <<>>,
      bundles                  |-> <<b>> ]

\* The SampleConfig a builder is called with: the sample count and the
\* width, height and format of the swap chain descriptor.
SampleConfig(sc, count) ==
    [ sample_count |-> count, width |-> sc.width, height |-> sc.height,
      format |-> sc.format ]

NoCalls == [create_bundle |-> 0, create_multisampled_framebuffer |-> 0]

\* winit::event::WindowEvent as far as update() matches on it
Events ==
    [ kind : {"KeyboardInput"}, state : {"Pressed", "Released"},
      key : {"Left", "Right", "Up"} ]
    \cup { [kind |-> "CursorMoved", state |-> "Released", key |-> "None"] }

\* (variant: a released key counts like a pressed one)
IsPressed_any_state(event, k) ==
    event.kind = "KeyboardInput" /\ event.key = k

IsPressed(event, k) ==
    event.kind = "KeyboardInput" /\ event.state = "Pressed" /\ event.key = k

\* ---------------------------------------------------------------- init
\* (variant: the controller starts with the dirty flag set)
Init_dirty ==
    \E size \in Sizes :
        LET w == size[1]
            h == size[2]
            sc == SwapChainDescriptor(w, h) IN
        /\ vs_module = "shader.vert.spv"
        /\ fs_module = "shader.frag.spv"
        /\ pipeline_layout = "pipeline_layout"
        /\ multisampled_framebuffer =
               create_multisampled_framebuffer(sc, InitialSampleCount)
        /\ vertex_buffer = create_buffer_with_data(vertex_data(max), "VERTEX")
        /\ vertex_count = Len(vertex_data(max))
        /\ bundle = create_bundle(sc, "shader.vert.spv", "shader.frag.spv",
                                  "pipeline_layout", InitialSampleCount,
                                  create_buffer_with_data(vertex_data(max),
                                                          "VERTEX"),
                                  Len(vertex_data(max)))
        /\ sample_count = InitialSampleCount
        /\ rebuild_bundle = TRUE
        /\ sc_desc = sc
        /\ command_buffer = <<>>
        /\ calls = [create_bundle |-> 1, create_multisampled_framebuffer |-> 1]
        /\ lastOp = "init"
        /\ prevOp = "none"
        /\ lastResize = <<w, h>>
        /\ net_steps = 0
        /\ inputsSinceRender = 0
        /\ absorbed = 0
        /\ bundle_config = SampleConfig(sc, InitialSampleCount)

Init ==
    \E size \in Sizes :
        LET w == size[1]
            h == size[2]
            sc == SwapChainDescriptor(w, h) IN
        /\ vs_module = "shader.vert.spv"
        /\ fs_module = "shader.frag.spv"
        /\ pipeline_layout = "pipeline_layout"
        /\ multisampled_framebuffer =
               create_multisampled_framebuffer(sc, InitialSampleCount)
        /\ vertex_buffer = create_buffer_with_data(vertex_data(max), "VERTEX")
        /\ vertex_count = Len(vertex_data(max))
        /\ bundle = create_bundle(sc, "shader.vert.spv", "shader.frag.spv",
                                  "pipeline_layout", InitialSampleCount,
                                  create_buffer_with_data(vertex_data(max),
                                                          "VERTEX"),
                                  Len(vertex_data(max)))
        /\ sample_count = InitialSampleCount
        /\ rebuild_bundle = FALSE
        /\ sc_desc = sc
        /\ command_buffer = <<>>
        /\ calls = [create_bundle |-> 1, create_multisampled_framebuffer |-> 1]
        /\ lastOp = "init"
        /\ prevOp = "none"
        /\ lastResize = <<w, h>>
        /\ net_steps = 0
        /\ inputsSinceRender = 0
        /\ absorbed = 0
        /\ bundle_config = SampleConfig(sc, InitialSampleCount)

\* ---------------------------------------------------------------- update
update(event) ==
    /\ IsPressed(event, "Left") => net_steps > -MaxNet
    /\ IsPressed(event, "Right") => net_steps < MaxNet
    /\ IF IsPressed(event, "Left")
       THEN IF sample_count >= LeftLimit
            THEN /\ sample_count' = shr1(sample_count)
                 /\ rebuild_bundle' = TRUE
            ELSE UNCHANGED <<sample_count, rebuild_bundle>>
       ELSE IF IsPressed(event, "Right")
       THEN IF sample_count <= RightLimit
            THEN /\ sample_count' = shl1(sample_count)
                 /\ rebuild_bundle' = TRUE
            ELSE UNCHANGED <<sample_count, rebuild_bundle>>
       ELSE UNCHANGED <<sample_count, rebuild_bundle>>
    /\ net_steps' = IF IsPressed(event, "Right") THEN net_steps + 1
                    ELSE IF IsPressed(event, "Left") THEN net_steps - 1
                    ELSE net_steps
    /\ inputsSinceRender' =
           IF (IsPressed(event, "Left") \/ IsPressed(event, "Right"))
              /\ inputsSinceRender < MaxCoalesced
           THEN inputsSinceRender + 1 ELSE inputsSinceRender
    /\ command_buffer' = <<>>
    /\ absorbed' = 0
    /\ calls' = NoCalls
    /\ prevOp' = lastOp
    /\ lastOp' = "update"
    /\ UNCHANGED <<bundle, multisampled_framebuffer, sc_desc, static_resources,
                   lastResize, bundle_config>>

\* ---------------------------------------------------------------- resize
\* (variant: the size is recorded and the target left to the next render())
resize_deferred(w, h) ==
    /\ sc_desc' = SwapChainDescriptor(w, h)
    /\ rebuild_bundle' = TRUE
    /\ calls' = NoCalls
    /\ lastResize' = <<w, h>>
    /\ prevOp' = lastOp
    /\ lastOp' = "resize"
    /\ command_buffer' = <<>>
    /\ absorbed' = 0
    /\ UNCHANGED <<bundle, multisampled_framebuffer, sample_count,
                   static_resources, net_steps, inputsSinceRender,
                   bundle_config>>

\* resize() with the count the target is created with, whether it is created
\* at all, and the flag it leaves made parameters: the variants below differ
\* from resize only in these.
resize_variant(w, h, count, recreate, flag) ==
    /\ sc_desc' = SwapChainDescriptor(w, h)
    /\ multisampled_framebuffer' =
           IF recreate
           THEN create_multisampled_framebuffer(SwapChainDescriptor(w, h), count)
           ELSE multisampled_framebuffer
    /\ rebuild_bundle' = flag
    /\ calls' = [create_bundle |-> 0,
                 create_multisampled_framebuffer |-> IF recreate THEN 1 ELSE 0]
    /\ lastResize' = <<w, h>>
    /\ prevOp' = lastOp
    /\ lastOp' = "resize"
    /\ command_buffer' = <<>>
    /\ absorbed' = 0
    /\ UNCHANGED <<bundle, sample_count, static_resources,
                   net_steps, inputsSinceRender, bundle_config>>

\* recreates the target and also sets the dirty flag
resize_marks_dirty(w, h) == resize_variant(w, h, sample_count, TRUE, TRUE)

\* recreates the target with the sample count of init
resize_initial_count(w, h) ==
    resize_variant(w, h, InitialSampleCount, TRUE, rebuild_bundle)

\* records the new size and keeps the old target
resize_records_only(w, h) ==
    resize_variant(w, h, sample_count, FALSE, rebuild_bundle)

resize(w, h) ==
    /\ sc_desc' = SwapChainDescriptor(w, h)
    /\ multisampled_framebuffer' =
           create_multisampled_framebuffer(SwapChainDescriptor(w, h), sample_count)
    /\ calls' = [create_bundle |-> 0, create_multisampled_framebuffer |-> 1]
    /\ lastResize' = <<w, h>>
    /\ prevOp' = lastOp
    /\ lastOp' = "resize"
    /\ command_buffer' = <<>>
    /\ absorbed' = 0
    /\ UNCHANGED <<bundle, sample_count, rebuild_bundle, static_resources,
                   net_steps, inputsSinceRender, bundle_config>>

\* ---------------------------------------------------------------- render
\* render() with the decision to rebuild each resource made a parameter: the
\* variants below differ from render only in that decision.
render_variant(rebuild, rebuild_target) ==
    LET newBundle == IF rebuild
                     THEN create_bundle(sc_desc, vs_module, fs_module,
                                        pipeline_layout, sample_count,
                                        vertex_buffer, vertex_count)
                     ELSE bundle
        newTarget == IF rebuild_target
                     THEN create_multisampled_framebuffer(sc_desc, sample_count)
                     ELSE multisampled_framebuffer
    IN  /\ bundle' = newBundle
        /\ multisampled_framebuffer' = newTarget
        /\ rebuild_bundle' = FALSE
        /\ calls' = [create_bundle |-> IF rebuild THEN 1 ELSE 0,
                     create_multisampled_framebuffer |->
                         IF rebuild_target THEN 1 ELSE 0]
        /\ bundle_config' = IF rebuild
                            THEN SampleConfig(sc_desc, sample_count)
                            ELSE bundle_config
        /\ command_buffer' =
               << render_pass(
                      rpass_color_attachment(sample_count, frame_view(sc_desc),
                                             newTarget),
                      newBundle) >>
        /\ inputsSinceRender' = 0
        /\ absorbed' = inputsSinceRender
        /\ prevOp' = lastOp
        /\ lastOp' = "render"
        /\ UNCHANGED <<sample_count, sc_desc, static_resources, lastResize,
                       net_steps>>

\* rebuilds the bundle and the target on every frame
render_every_frame == render_variant(TRUE, TRUE)

\* rebuilds whenever the bundle's sample count is not the current one, and
\* only then
render_on_config_change ==
    render_variant(bundle.sample_count # sample_count,
                   bundle.sample_count # sample_count)

\* rebuilds the bundle but not the target
render_bundle_only == render_variant(rebuild_bundle, FALSE)

\* rebuilds the target but not the bundle
render_target_only == render_variant(FALSE, rebuild_bundle)

render ==
    /\ IF rebuild_bundle
       THEN /\ bundle' = create_bundle(sc_desc, vs_module, fs_module,
                                       pipeline_layout, sample_count,
                                       vertex_buffer, vertex_count)
            /\ multisampled_framebuffer' =
                   create_multisampled_framebuffer(sc_desc, sample_count)
            /\ rebuild_bundle' = FALSE
            /\ calls' = [create_bundle |-> 1,
                         create_multisampled_framebuffer |-> 1]
            /\ bundle_config' = SampleConfig(sc_desc, sample_count)
       ELSE /\ UNCHANGED <<bundle, multisampled_framebuffer, rebuild_bundle,
                           bundle_config>>
            /\ calls' = NoCalls
    /\ command_buffer' =
           << render_pass(
                  rpass_color_attachment(sample_count, frame_view(sc_desc),
                                         multisampled_framebuffer'),
                  bundle') >>
    /\ inputsSinceRender' = 0
    /\ absorbed' = inputsSinceRender
    /\ prevOp' = lastOp
    /\ lastOp' = "render"
    /\ UNCHANGED <<sample_count, sc_desc, static_resources, lastResize,
                   net_steps>>

\* ------------------------------------------------------------------ system
\* framework::run delivers window events, resizes and redraw requests one at
\* a time, in any order.
Update == \E event \in Events : update(event)

Resize == \E size \in Sizes : resize(size[1], size[2])

Render == render

Next == Update \/ Resize \/ Render

Spec == Init /\ [][Next]_vars

\* framework::run asks for a redraw after every batch of events, so a render()
\* that would change the state is not put off forever.
FairSpec == Spec /\ WF_vars(Render)

\* ================================================================== claims
\* A step of render(): the handler that ran last in the next state is render.
RenderStep == lastOp' = "render"

\* A step of resize().
ResizeStep == lastOp' = "resize"

\* update() received a pressed Right key / a pressed Left key.
IncreaseStep == net_steps' = net_steps + 1

DecreaseStep == net_steps' = net_steps - 1

\* The pass of the command buffer the last render() returned.
LastPass == command_buffer[1]

LastAttachment == LastPass.color_attachments[1]

\* ---------------------------------------------------------------------- C1
\* C1: in every reachable state sample_count is one of 1, 2, 4, 8, 16.
C1_SampleCountInSet == sample_count \in {1, 2, 4, 8, 16}

\* ---------------------------------------------------------------------- C2
\* C2: every bundle executed in the pass of a render() was built with the
\* sample count of the pass's colour attachment (1 for the surface view, the
\* target's sample count for the multisample target).
C2_BundleMatchesPass ==
    \A i \in 1..Len(command_buffer) :
        \A j \in 1..Len(command_buffer[i].bundles) :
            command_buffer[i].bundles[j].sample_count =
                command_buffer[i].color_attachments[1].attachment.sample_count

\* a render() that rebuilt for a changed sample count after a resize and
\* rendered into the multisample target
C2_Witness ==
    /\ lastOp = "render"
    /\ prevOp = "resize"
    /\ calls.create_bundle = 1
    /\ LastAttachment.attachment.view = "multisampled_framebuffer"
    /\ LastPass.bundles[1].sample_count = 8

\* ---------------------------------------------------------------------- C3
\* C3: a render() entered Dirty leaves, and uses in its pass, a bundle built
\* with the current sample_count and a multisample target with that sample
\* count and the width and height of the latest resize.
C3_RebuildCorrect ==
    [][ (rebuild_bundle /\ RenderStep) =>
          /\ bundle'.sample_count = sample_count'
          /\ multisampled_framebuffer'.sample_count = sample_count'
          /\ multisampled_framebuffer'.width = lastResize'[1]
          /\ multisampled_framebuffer'.height = lastResize'[2]
          /\ command_buffer'[1].bundles = <<bundle'>>
          /\ (sample_count' > 1 =>
                command_buffer'[1].color_attachments[1].attachment =
                    multisampled_framebuffer') ]_vars

\* a rebuild for a doubled sample count after a resize to 2 x 1
C3_Witness ==
    /\ lastOp = "render"
    /\ prevOp = "resize"
    /\ calls.create_bundle = 1
    /\ sample_count = 8
    /\ lastResize = <<2, 1>>
    /\ multisampled_framebuffer.width = 2
    /\ multisampled_framebuffer.height = 1
    /\ bundle.sample_count = 8

\* ---------------------------------------------------------------------- C4
\* C4: the pass of a render() has one colour attachment: the surface view
\* without resolve target when sample_count is 1, the multisample target
\* resolving into the surface view otherwise; it clears to black, stores, and
\* executes exactly the installed bundle.
C4_PassSelection ==
    lastOp = "render" =>
        /\ Len(command_buffer) = 1
        /\ Len(LastPass.color_attachments) = 1
        /\ (sample_count = 1 =>
              /\ LastAttachment.attachment = frame_view(sc_desc)
              /\ LastAttachment.resolve_target = <<>>)
        /\ (sample_count > 1 =>
              /\ LastAttachment.attachment = multisampled_framebuffer
              /\ LastAttachment.resolve_target = <<frame_view(sc_desc)>>)
        /\ LastAttachment.load_op = "Clear"
        /\ LastAttachment.clear_color = "BLACK"
        /\ LastAttachment.store_op = "Store"
        /\ LastPass.bundles = <<bundle>>

\* a render() at sample_count 1, straight into the surface view
C4_Witness ==
    /\ lastOp = "render"
    /\ sample_count = 1
    /\ LastAttachment.attachment.view = "frame.view"
    /\ LastAttachment.resolve_target = <<>>

\* ---------------------------------------------------------------------- C5
\* C5: a render() that directly follows a render(), the controller Idle,
\* returns the same pass configuration, calls neither builder and leaves the
\* fields of the controller as they were.
C5_IdleRenderIdempotent ==
    [][ (lastOp = "render" /\ ~rebuild_bundle /\ RenderStep) =>
          /\ command_buffer' = command_buffer
          /\ calls' = NoCalls
          /\ UNCHANGED fields ]_vars

\* two render() calls in a row, after the sample count had been changed
C5_Witness ==
    /\ lastOp = "render"
    /\ prevOp = "render"
    /\ calls = NoCalls
    /\ sample_count = 2
    /\ bundle.sample_count = 2

\* ---------------------------------------------------------------------- C6
Clamp(x, lo, hi) == IF x < lo THEN lo ELSE IF x > hi THEN hi ELSE x

\* C6: after any sequence of increase and decrease inputs from 4,
\* sample_count = 2^clamp(2 + net_steps, 0, 4).
C6_ClosedForm == sample_count = 2 ^ Clamp(2 + net_steps, 0, 4)

\* ---------------------------------------------------------------------- C7
\* C7 as stated: a resize records the new width and height and leaves the
\* controller Dirty.
C7_ResizeMakesDirty ==
    [][ ResizeStep =>
          /\ sc_desc'.width = lastResize'[1]
          /\ sc_desc'.height = lastResize'[2]
          /\ rebuild_bundle' ]_vars

\* C7 as amended: a resize records the new width and height and itself
\* recreates the multisample target at that size with the current
\* sample_count; it changes neither the dirty flag nor the bundle, and the
\* render() that follows it calls the bundle builder only if the flag was
\* already set.
C7_ResizeRebuildsTarget ==
    [][ /\ ResizeStep =>
            /\ sc_desc'.width = lastResize'[1]
            /\ sc_desc'.height = lastResize'[2]
            /\ multisampled_framebuffer'.width = lastResize'[1]
            /\ multisampled_framebuffer'.height = lastResize'[2]
            /\ multisampled_framebuffer'.sample_count = sample_count
            /\ calls'.create_multisampled_framebuffer = 1
            /\ calls'.create_bundle = 0
            /\ rebuild_bundle' = rebuild_bundle
            /\ bundle' = bundle
        /\ (lastOp = "resize" /\ RenderStep /\ ~rebuild_bundle) =>
            /\ calls' = NoCalls
            /\ multisampled_framebuffer' = multisampled_framebuffer ]_vars

\* an Idle controller was resized to 2 x 1 and then rendered without a rebuild
C7_Witness ==
    /\ lastOp = "render"
    /\ prevOp = "resize"
    /\ calls = NoCalls
    /\ sc_desc.width = 2
    /\ sc_desc.height = 1
    /\ multisampled_framebuffer.width = 2
    /\ multisampled_framebuffer.height = 1
    /\ bundle_config.width = 1

\* ---------------------------------------------------------------------- C8
\* C8: an increase input at sample_count 16 leaves sample_count at 16 and
\* the dirty flag as it was.
C8_CeilingClamp ==
    [][ (IncreaseStep /\ sample_count = 16) =>
          /\ sample_count' = 16
          /\ rebuild_bundle' = rebuild_bundle ]_vars

\* ---------------------------------------------------------------------- C9
\* C9 as stated: render() calls the bundle builder exactly when the current
\* SampleConfig differs from the one the installed bundle was built with.
C9_RebuildIffConfigDiffers ==
    [][ RenderStep =>
          (calls'.create_bundle = 1
             <=> SampleConfig(sc_desc, sample_count) # bundle_config) ]_vars

\* C9 as amended: render() calls the bundle builder (and with it the target
\* builder) exactly when the dirty flag is set; the flag is set whenever
\* sample_count differs from the sample count of the installed bundle.
C9_RebuildIffDirty ==
    [][ RenderStep =>
          /\ calls'.create_bundle = 1 <=> rebuild_bundle
          /\ calls'.create_multisampled_framebuffer = calls'.create_bundle
          /\ bundle.sample_count # sample_count => rebuild_bundle ]_vars

\* a Left and a Right input brought sample_count back to the 4 the bundle was
\* built for, and render() rebuilt all the same
C9_Witness ==
    /\ lastOp = "render"
    /\ absorbed = 2
    /\ net_steps = 0
    /\ sample_count = 4
    /\ calls.create_bundle = 1

\* --------------------------------------------------------------------- C10
\* C10: a render() that follows one or more increase/decrease inputs calls
\* each builder at most once, and what it builds has the sample_count
\* current at the render.
C10_Coalescing ==
    [][ (RenderStep /\ inputsSinceRender >= 1) =>
          /\ calls'.create_bundle <= 1
          /\ calls'.create_multisampled_framebuffer <= 1
          /\ calls'.create_bundle = 1 =>
                /\ bundle'.sample_count = sample_count
                /\ bundle_config'.sample_count = sample_count
          /\ calls'.create_multisampled_framebuffer = 1 =>
                multisampled_framebuffer'.sample_count = sample_count ]_vars

\* two inputs were delivered between two render() calls and the second one
\* built once, for the final sample_count 1
C10_Witness ==
    /\ lastOp = "render"
    /\ absorbed >= 2
    /\ calls.create_bundle = 1
    /\ calls.create_multisampled_framebuffer = 1
    /\ sample_count = 1
    /\ bundle.sample_count = 1
    /\ net_steps = -2

\* --------------------------------------------------------------------- C11
\* An event that is not a pressed Left or a pressed Right key.
OtherEvent(event) ==
    ~ ( /\ event.kind = "KeyboardInput"
        /\ event.state = "Pressed"
        /\ event.key \in {"Left", "Right"} )

\* C11: update() with an event other than a pressed Left or a pressed Right
\* key changes no field of the controller.
C11_OtherEventsIgnored ==
    [][ \A event \in Events :
          (OtherEvent(event) /\ update(event)) => UNCHANGED fields ]_vars

\* an update() ran after a render() and counted no input: it was given an
\* event other than a pressed Left/Right
C11_Witness ==
    /\ lastOp = "update"
    /\ prevOp = "render"
    /\ inputsSinceRender = 0
    /\ ~rebuild_bundle
    /\ sample_count = 8

\* --------------------------------------------------------------------- C12
\* The vertices of `data` come in pairs of a centre (distance 0 from the
\* origin) and a rim vertex (distance 1), n pairs in all.
CentreRimPairs(data, n) ==
    /\ Len(data) = 2 * n
    /\ \A i \in 0..(n - 1) :
          /\ data[2 * i + 1].radius = 0
          /\ data[2 * i + 2].radius = 1

\* C12: the generator yields 2 * segment_count vertices in centre/rim pairs
\* for every segment_count >= 0, and the vertex_count kept by init and drawn
\* by the bundle is that number, 100 for the 50 segments of init.
C12_VertexPairs ==
    /\ \A n \in 0..MaxSegments : CentreRimPairs(vertex_data(n), n)
    /\ CentreRimPairs(vertex_data(max), max)
    /\ vertex_count = Len(vertex_data(max))
    /\ vertex_count = 100
    /\ vertex_buffer.size = vertex_count * VertexSize
    /\ bundle.draw = vertex_count
    /\ bundle.vertex_buffer = vertex_buffer

\* a bundle rebuilt by render() draws the 100 vertices
C12_Witness ==
    /\ lastOp = "render"
    /\ calls.create_bundle = 1
    /\ bundle.sample_count = 16
    /\ bundle.draw = 100
    /\ bundle.vertex_buffer.size = 100 * VertexSize

\* --------------------------------------------------------------------- C13
\* C13: a decrease input takes sample_count from 4 to 2, from 2 to 1 and
\* from 1 to 1 (so three of them from init give 4, 2, 1, 1); at 1 it leaves
\* the dirty flag as it was; a render() at sample_count 1 writes to the
\* surface view, without resolve target.
C13_FloorClamp ==
    [][ /\ (DecreaseStep /\ sample_count = 4) => sample_count' = 2
        /\ (DecreaseStep /\ sample_count = 2) => sample_count' = 1
        /\ (DecreaseStep /\ sample_count = 1) =>
              /\ sample_count' = 1
              /\ rebuild_bundle' = rebuild_bundle
        /\ (RenderStep /\ sample_count = 1) =>
              /\ command_buffer'[1].color_attachments[1].attachment =
                     frame_view(sc_desc)
              /\ command_buffer'[1].color_attachments[1].resolve_target = <<>>
      ]_vars

\* three decrease inputs and nothing else since init, the last one a no-op
\* on an Idle controller at sample_count 1
C13_Witness ==
    /\ lastOp = "update"
    /\ prevOp = "render"
    /\ net_steps = -3
    /\ sample_count = 1
    /\ ~rebuild_bundle
    /\ inputsSinceRender = 1

\* --------------------------------------------------------------------- C14
\* C14: a render() entered Dirty calls both builders with the current
\* SampleConfig, installs what they return and uses it in its pass; every
\* render() returns Idle; and with render steps recurring every Dirty state
\* is followed by an Idle one.
C14_DirtyRebuildsThenIdle ==
    /\ [][ /\ (rebuild_bundle /\ RenderStep) =>
                /\ calls' = [create_bundle |-> 1,
                             create_multisampled_framebuffer |-> 1]
                /\ bundle_config' = SampleConfig(sc_desc, sample_count)
                /\ bundle'.sample_count = sample_count
                /\ multisampled_framebuffer' =
                       [ view |-> "multisampled_framebuffer",
                         width |-> sc_desc.width, height |-> sc_desc.height,
                         sample_count |-> sample_count,
                         format |-> sc_desc.format ]
                /\ command_buffer'[1].bundles = <<bundle'>>
           /\ RenderStep => ~rebuild_bundle' ]_vars
    /\ (rebuild_bundle ~> ~rebuild_bundle)

\* a render() that followed an input rebuilt both and left the controller Idle
C14_Witness ==
    /\ lastOp = "render"
    /\ prevOp = "update"
    /\ absorbed = 1
    /\ calls.create_bundle = 1
    /\ calls.create_multisampled_framebuffer = 1
    /\ ~rebuild_bundle
    /\ bundle.sample_count = 2

\* --------------------------------------------------------------------- C15
\* C15: right after init the controller is Idle with sample_count 4, a
\* bundle built for 4 and a target built for 4 at the initial surface size;
\* a render() directly after init calls no builder and renders into the
\* target, resolving into the surface view.
C15_InitialState ==
    /\ lastOp = "init" =>
          /\ ~rebuild_bundle
          /\ sample_count = 4
          /\ bundle.sample_count = 4
          /\ multisampled_framebuffer.sample_count = 4
          /\ multisampled_framebuffer.width = lastResize[1]
          /\ multisampled_framebuffer.height = lastResize[2]
          /\ sc_desc.width = lastResize[1]
          /\ sc_desc.height = lastResize[2]
    /\ (lastOp = "render" /\ prevOp = "init") =>
          /\ calls = NoCalls
          /\ LastAttachment.attachment = multisampled_framebuffer
          /\ LastAttachment.attachment.sample_count = 4
          /\ LastAttachment.resolve_target = <<frame_view(sc_desc)>>
          /\ LastPass.bundles[1].sample_count = 4

\* the first handler to run after init was render()
C15_Witness ==
    /\ lastOp = "render"
    /\ prevOp = "init"
    /\ calls = NoCalls
    /\ LastAttachment.attachment.view = "multisampled_framebuffer"
    /\ Len(LastAttachment.resolve_target) = 1

\* --------------------------------------------------------------------- C16
\* C16: the dirty flag goes from false to true only in update(), and from
\* true to false only in a render() that called both builders; sample_count
\* changes only in update(); resize() leaves the flag as it was.
C16_WhoWritesWhat ==
    [][ /\ (~rebuild_bundle /\ rebuild_bundle') => lastOp' = "update"
        /\ (rebuild_bundle /\ ~rebuild_bundle') =>
              /\ lastOp' = "render"
              /\ calls' = [create_bundle |-> 1,
                           create_multisampled_framebuffer |-> 1]
        /\ sample_count' # sample_count => lastOp' = "update"
        /\ ResizeStep => rebuild_bundle' = rebuild_bundle
        /\ RenderStep => sample_count' = sample_count ]_vars

\* update() set the flag, resize() kept it, render() cleared it
C16_Witness ==
    /\ lastOp = "render"
    /\ prevOp = "resize"
    /\ absorbed = 1
    /\ calls.create_bundle = 1
    /\ ~rebuild_bundle
    /\ sample_count = 2

\* --------------------------------------------------------------------- C17
\* C17: no step after init changes the vertex buffer, vertex_count, the two
\* shader modules or the pipeline layout, and every bundle render() builds
\* is built from exactly these.
C17_StaticResources ==
    [][ /\ UNCHANGED static_resources
        /\ (RenderStep /\ calls'.create_bundle = 1) =>
              /\ bundle'.vertex_stage = vs_module
              /\ bundle'.fragment_stage = fs_module
              /\ bundle'.layout = pipeline_layout
              /\ bundle'.vertex_buffer = vertex_buffer
              /\ bundle'.draw = vertex_count ]_vars

\* a rebuild by render(), from the resources of init
C17_Witness ==
    /\ lastOp = "render"
    /\ calls.create_bundle = 1
    /\ net_steps = 0
    /\ absorbed = 2
    /\ bundle.vertex_stage = "shader.vert.spv"
    /\ bundle.fragment_stage = "shader.frag.spv"
    /\ bundle.layout = "pipeline_layout"
    /\ vertex_count = 100

\* --------------------------------------------------------------------- C18
\* C18 as stated: in every reachable state the bundle and the multisample
\* target have the same sample count, and no handler calls the target
\* builder without calling the bundle builder.
C18_BundleTargetAgree ==
    /\ bundle.sample_count = multisampled_framebuffer.sample_count
    /\ calls.create_multisampled_framebuffer = 1 => calls.create_bundle = 1

\* C18 as amended: the bundle and the multisample target have the same sample
\* count whenever the controller is Idle; render() calls both builders or
\* neither; resize() calls the target builder alone, with the sample_count
\* current at the resize, so while the controller is Dirty the target may
\* have a later sample count than the bundle.
C18_AgreeWhenIdle ==
    /\ ~rebuild_bundle =>
          bundle.sample_count = multisampled_framebuffer.sample_count
    /\ lastOp = "resize" =>
          multisampled_framebuffer.sample_count = sample_count
    /\ lastOp = "render" =>
          calls.create_bundle = calls.create_multisampled_framebuffer
    /\ calls.create_multisampled_framebuffer # calls.create_bundle =>
          lastOp = "resize"

\* a resize() of a Dirty controller: the target is at 2 samples, the bundle
\* still at 4
C18_Witness ==
    /\ lastOp = "resize"
    /\ prevOp = "update"
    /\ rebuild_bundle
    /\ sample_count = 2
    /\ multisampled_framebuffer.sample_count = 2
    /\ bundle.sample_count = 4

\* --------------------------------------------------------------------- C19
\* C19: whenever the dirty flag is false, the installed bundle and the
\* installed multisample target were both built with the current
\* sample_count.
C19_IdleImpliesAgreement ==
    ~rebuild_bundle =>
        /\ bundle.sample_count = sample_count
        /\ multisampled_framebuffer.sample_count = sample_count

\* an Idle controller away from the initial sample count, just resized
C19_Witness ==
    /\ ~rebuild_bundle
    /\ lastOp = "resize"
    /\ sample_count = 16
    /\ bundle.sample_count = 16
    /\ multisampled_framebuffer.sample_count = 16

\* --------------------------------------------------------------------- C20
\* C20: in every reachable state the multisample target has the width and
\* height of the recorded surface configuration sc_desc.
C20_TargetHasSurfaceSize ==
    /\ multisampled_framebuffer.width = sc_desc.width
    /\ multisampled_framebuffer.height = sc_desc.height

\* right after a resize() to 1 x 2 that no render() has followed yet
C20_Witness ==
    /\ lastOp = "resize"
    /\ prevOp = "render"
    /\ lastResize = <<1, 2>>
    /\ bundle_config.height = 1
    /\ multisampled_framebuffer.width = 1
    /\ multisampled_framebuffer.height = 2

====
